---- MODULE Spec2Model ----
(***************************************************************************)
(* Runtime core of the ocelotter bytecode virtual machine:                 *)
(*   src/src/runtime.rs              klass metadata, runtime values,       *)
(*                                   operand stack, local variables,       *)
(*                                   class repository                      *)
(*   src/runtime/src/interp_stack.rs the second operand stack              *)
(*                                                                         *)
(* Strings are sequences of one-character strings, so that concatenation   *)
(* is real concatenation.  A panic is modelled as the failure kind it      *)
(* stands for; a panicked component takes no further step.                 *)
(***************************************************************************)
EXTENDS Integers, Sequences, FiniteSets, TLC

VARIABLES
    es,     \* interp_eval_stack (runtime.rs): [stack, err, ret, trace]
    ies,    \* InterpEvalStack (interp_stack.rs): [stack, err, ret, trace]
    hist,   \* the operand-stack operations called so far, oldest first
    lvt,    \* interp_local_vars.lvt, the array of 256 values
    lstat,  \* the local variables' [err, ret]: failure, last load() result
    lhist,  \* the local-variable operations called so far, oldest first
    kl,     \* the ot_klass the caller constructed
    kargs,  \* what its methods were made from: the arguments of the
            \* ot_method::of calls, or the caller's method objects as they
            \* were when passed to ot_klass::of
    cmeth,  \* the method objects the caller holds
    kcall,  \* the last call on kl: [op, key]
    kstat,  \* that call's [err, ret]
    repo,   \* shared_klass_repo: [klass_lookup]
    adds,   \* the klasses passed to add_klass so far, oldest first
    rcall,  \* the last lookup on repo: [op, name]
    rstat   \* that lookup's [err, ret]

stackVars == <<es, ies, hist>>
lvtVars == <<lvt, lstat, lhist>>
klassVars == <<kl, kargs, cmeth, kcall, kstat>>
repoVars == <<repo, adds, rcall, rstat>>
vars == <<stackVars, lvtVars, klassVars, repoVars>>

\* an object that a run does not construct
NotBuilt == "not constructed"

---------------------------------------------------------------------------
(* Bounds of the model *)

\* longest sequence of operand-stack operations explored
MaxOps == 4
\* longest sequence of operations explored with the whole instruction set
MaxAllOps == 3
\* longest sequence of local-variable operations explored
MaxLvtOps == 3
\* longest method list a klass is constructed from
MaxMethods == 2
\* largest number of add_klass calls explored
MaxAdds == 3

---------------------------------------------------------------------------
(* Failure kinds: the panics of the code, named as in the taxonomy.  The   *)
(* two arithmetic kinds are Rust's own panics of the integer operators.    *)

NoErr == "none"
StackUnderflow == "StackUnderflow"
TypeMismatch == "TypeMismatch"
MethodNotFound == "MethodNotFound"
ClassNotFound == "ClassNotFound"
InvalidConstantPoolIndex == "InvalidConstantPoolIndex"
UnsupportedConstantKind == "UnsupportedConstantKind"
\* a recursion that never returns ends when the call stack is exhausted
StackExhausted == "StackExhausted"
ArithmeticOverflow == "ArithmeticOverflow"
DivideByZero == "DivideByZero"

---------------------------------------------------------------------------
(* i32 arithmetic.  `checks` is the build's overflow-checks setting: with  *)
(* it `+ - *` and unary `-` panic on overflow, without it they wrap.       *)
(* `/` and `%` panic on a zero divisor and on MIN / -1 in every build.     *)
(* Nothing here computes a number outside the 32-bit range.                *)

IntMax == 2147483647
IntMin == -IntMax - 1

Val(v) == [panic |-> NoErr, val |-> v]
Panic(kind) == [panic |-> kind, val |-> 0]

AddOverflows(a, b) == (b > 0 /\ a > IntMax - b) \/ (b < 0 /\ a < IntMin - b)

wrapping_add(a, b) ==
    IF b > 0 /\ a > IntMax - b THEN (a - IntMax - 1) + (b - IntMax - 1)
    ELSE IF b < 0 /\ a < IntMin - b THEN (a - IntMin) + (b - IntMin)
    ELSE a + b

SubOverflows(a, b) == (b < 0 /\ a > IntMax + b) \/ (b > 0 /\ a < IntMin + b)

wrapping_sub(a, b) ==
    IF b < 0 /\ a > IntMax + b THEN (a - IntMax - 1) - (b - IntMin)
    ELSE IF b > 0 /\ a < IntMin + b THEN (a - IntMin) - (b - IntMax - 1)
    ELSE a - b

wrapping_neg(a) == IF a = IntMin THEN IntMin ELSE 0 - a

MulOverflows(a, b) ==
    IF a = 0 \/ b = 0 THEN FALSE
    ELSE IF a > 0 /\ b > 0 THEN a > IntMax \div b
    ELSE IF a > 0 /\ b < 0 THEN b < (IntMin + a - 1) \div a
    ELSE IF a < 0 /\ b > 0 THEN a < (IntMin + b - 1) \div b
    ELSE a = IntMin \/ b = IntMin \/ (0 - a) > IntMax \div (0 - b)

\* byte k (0 = lowest) of the two's complement form of the i32 a
Byte(a, k) ==
    IF k = 0 THEN a % 256
    ELSE IF k = 1 THEN (a \div 256) % 256
    ELSE IF k = 2 THEN (a \div 65536) % 256
    ELSE (a \div 16777216) % 256

\* the i32 whose two's complement form has the 16-bit halves hi and lo
FromHalves(hi, lo) ==
    IF hi >= 32768 THEN (hi - 65536) * 65536 + lo ELSE hi * 65536 + lo

\* the low 32 bits of a * b, by long multiplication on bytes
wrapping_mul(a, b) ==
    LET c0 == Byte(a, 0) * Byte(b, 0)
        c1 == Byte(a, 0) * Byte(b, 1) + Byte(a, 1) * Byte(b, 0)
        c2 == Byte(a, 0) * Byte(b, 2) + Byte(a, 1) * Byte(b, 1)
                + Byte(a, 2) * Byte(b, 0)
        c3 == Byte(a, 0) * Byte(b, 3) + Byte(a, 1) * Byte(b, 2)
                + Byte(a, 2) * Byte(b, 1) + Byte(a, 3) * Byte(b, 0)
        t == c0 + (c1 % 256) * 256
        h == (t \div 65536) + (c1 \div 256) + c2 + (c3 % 256) * 256
    IN  FromHalves(h % 65536, t % 65536)

\* a / b of two i32 with b > 0, rounded toward zero
TruncDivPos(a, b) == IF a >= 0 THEN a \div b ELSE (a + b - 1) \div b

\* a / b of two i32, b # 0 and not MIN / -1, rounded toward zero
TruncDiv(a, b) ==
    IF b > 0 THEN TruncDivPos(a, b)
    ELSE IF b = IntMin THEN (IF a = IntMin THEN 1 ELSE 0)
    ELSE 0 - TruncDivPos(a, 0 - b)

i32_add(a, b, checks) ==
    IF AddOverflows(a, b) /\ checks THEN Panic(ArithmeticOverflow)
    ELSE Val(wrapping_add(a, b))

i32_sub(a, b, checks) ==
    IF SubOverflows(a, b) /\ checks THEN Panic(ArithmeticOverflow)
    ELSE Val(wrapping_sub(a, b))

i32_mul(a, b, checks) ==
    IF MulOverflows(a, b) /\ checks THEN Panic(ArithmeticOverflow)
    ELSE Val(wrapping_mul(a, b))

i32_neg(a, checks) ==
    IF a = IntMin /\ checks THEN Panic(ArithmeticOverflow)
    ELSE Val(wrapping_neg(a))

i32_div(a, b) ==
    IF b = 0 THEN Panic(DivideByZero)
    ELSE IF a = IntMin /\ b = 0 - 1 THEN Panic(ArithmeticOverflow)
    ELSE Val(TruncDiv(a, b))

i32_rem(a, b) ==
    IF b = 0 THEN Panic(DivideByZero)
    ELSE IF a = IntMin /\ b = 0 - 1 THEN Panic(ArithmeticOverflow)
    ELSE Val(a - b * TruncDiv(a, b))

---------------------------------------------------------------------------
(* Runtime values (jvm_value) and object handles (ot_obj).  A double is    *)
(* modelled by an integer: the doubles of the model are small whole        *)
(* numbers, on which f64 arithmetic is exact.                              *)

ot_obj(mark, klassid) == [mark |-> mark, klassid |-> klassid]
get_null == ot_obj(0, 0)

\* an is_null that looks at the mark word alone
is_null_by_mark(o) == o.mark = 0

is_null(o) == IF o.mark = 0 /\ o.klassid = 0 THEN TRUE ELSE FALSE

IntV(v) == [kind |-> "Int", i |-> v]
DoubleV(v) == [kind |-> "Double", d |-> v]
LongV(v) == [kind |-> "Long", j |-> v]
ObjRefV(o) == [kind |-> "ObjRef", obj |-> o]

\* the ObjRef payload of interp_stack.rs is a plain number
IES_ObjRefV(n) == [kind |-> "ObjRef", ref |-> n]

\* "no value": what a call that returned nothing, or panicked, gave back
NoValue == [kind |-> "None"]

---------------------------------------------------------------------------
(* interp_eval_stack (runtime.rs).  A stack is the record                  *)
(*   stack  the Vec<jvm_value>, bottom first                               *)
(*   err    NoErr, or the failure the thread panicked with                 *)
(*   ret    the value the last pop() call returned                         *)
(*   trace  every push() and pop() call that completed, oldest first       *)
(* Each operator maps the stack before a call to the stack after it; a     *)
(* call made after a panic does not happen.                                *)

interp_eval_stack_of ==
    [stack |-> <<>>, err |-> NoErr, ret |-> NoValue, trace |-> <<>>]

Fail(m, kind) == [m EXCEPT !.err = kind, !.ret = NoValue]

\* the call returns (): nothing is handed back to the caller
Unit(m) == [m EXCEPT !.ret = NoValue]

\* a Vec::pop that takes the first element
VecPopFront(m) ==
    [m EXCEPT !.stack = SubSeq(@, 2, Len(@)),
              !.ret = m.stack[1],
              !.trace = Append(@, <<"pop", m.stack[1]>>)]

\* Vec::pop: the last element is removed and returned
VecPop(m) ==
    [m EXCEPT !.stack = SubSeq(@, 1, Len(@) - 1),
              !.ret = m.stack[Len(m.stack)],
              !.trace = Append(@, <<"pop", m.stack[Len(m.stack)]>>)]

\* Vec::push: the element is appended
VecPush(m, val) ==
    [m EXCEPT !.stack = Append(@, val),
              !.trace = Append(@, <<"push", val>>)]

push(m, val) ==
    IF m.err # NoErr THEN m ELSE VecPush(m, val)

\* a pop that takes a stack of one value for an empty one
pop_off_by_one(m) ==
    IF m.err # NoErr THEN m
    ELSE IF Len(m.stack) <= 1 THEN Fail(m, StackUnderflow)
    ELSE VecPop(m)

pop(m) ==
    IF m.err # NoErr THEN m
    ELSE IF Len(m.stack) = 0 THEN Fail(m, StackUnderflow)
    ELSE VecPop(m)

\* a pop_int that takes any other value for Int 0
pop_int_coercing(m) ==
    LET m1 == pop(m)
    IN  IF m1.err # NoErr THEN m1
        ELSE IF m1.ret.kind # "Int" THEN [m1 EXCEPT !.ret = IntV(0)]
        ELSE m1

\* match self.pop() { Int { val: i } => i, _ => panic!(..) }
pop_int(m) ==
    LET m1 == pop(m)
    IN  IF m1.err # NoErr THEN m1
        ELSE IF m1.ret.kind # "Int" THEN Fail(m1, TypeMismatch)
        ELSE m1

\* match self.pop() { Double { val: i } => i, _ => panic!(..) }
pop_double(m) ==
    LET m1 == pop(m)
    IN  IF m1.err # NoErr THEN m1
        ELSE IF m1.ret.kind # "Double" THEN Fail(m1, TypeMismatch)
        ELSE m1

\* self.push(Int { val: r }) of an arithmetic result r, or its panic
push_int(m, r) ==
    IF r.panic # NoErr THEN Fail(m, r.panic) ELSE Unit(push(m, IntV(r.val)))

aconst_null(m) == Unit(push(m, ObjRefV(get_null)))

iconst(m, v) == Unit(push(m, IntV(v)))

iadd(m, checks) ==
    LET m1 == pop_int(m)
        m2 == pop_int(m1)
    IN  IF m2.err # NoErr THEN m2
        ELSE push_int(m2, i32_add(m1.ret.i, m2.ret.i, checks))

isub(m, checks) ==
    LET m1 == pop_int(m)
        m2 == pop_int(m1)
    IN  IF m2.err # NoErr THEN m2
        ELSE push_int(m2, i32_sub(m1.ret.i, m2.ret.i, checks))

\* an imul that adds
imul_adding(m, checks) == iadd(m, checks)

imul(m, checks) ==
    LET m1 == pop_int(m)
        m2 == pop_int(m1)
    IN  IF m2.err # NoErr THEN m2
        ELSE push_int(m2, i32_mul(m1.ret.i, m2.ret.i, checks))

irem(m) ==
    LET m1 == pop_int(m)
        m2 == pop_int(m1)
    IN  IF m2.err # NoErr THEN m2
        ELSE push_int(m2, i32_rem(m2.ret.i, m1.ret.i))

\* an ixor that pops a value
ixor_popping(m) == pop(m)

ixor(m) == m

idiv(m) ==
    LET m1 == pop_int(m)
        m2 == pop_int(m1)
    IN  IF m2.err # NoErr THEN m2
        ELSE push_int(m2, i32_div(m2.ret.i, m1.ret.i))

iand(m) == m

ineg(m, checks) ==
    LET m1 == pop_int(m)
    IN  IF m1.err # NoErr THEN m1
        ELSE push_int(m1, i32_neg(m1.ret.i, checks))

ior(m) == m

dadd(m) ==
    LET m1 == pop_double(m)
        m2 == pop_double(m1)
    IN  IF m2.err # NoErr THEN m2
        ELSE Unit(push(m2, DoubleV(m1.ret.d + m2.ret.d)))

dsub(m) ==
    LET m1 == pop_double(m)
        m2 == pop_double(m1)
    IN  IF m2.err # NoErr THEN m2
        ELSE Unit(push(m2, DoubleV(m1.ret.d - m2.ret.d)))

dmul(m) ==
    LET m1 == pop_double(m)
        m2 == pop_double(m1)
    IN  IF m2.err # NoErr THEN m2
        ELSE Unit(push(m2, DoubleV(m1.ret.d * m2.ret.d)))

dconst(m, v) == Unit(push(m, DoubleV(v)))

i2d(m) == m

\* a dup that pushes the value back once
dup_once(m) ==
    LET m1 == pop(m)
    IN  IF m1.err # NoErr THEN m1
        ELSE Unit(push(m1, m1.ret))

dup(m) ==
    LET m1 == pop(m)
    IN  IF m1.err # NoErr THEN m1
        ELSE Unit(push(push(m1, m1.ret), m1.ret))

\* a dupX1 that copies the value beneath the top instead
dupX1_of_second(m) ==
    LET m1 == pop(m)
        m2 == pop(m1)
    IN  IF m2.err # NoErr THEN m2
        ELSE Unit(push(push(push(m2, m2.ret), m1.ret), m2.ret))

dupX1(m) ==
    LET m1 == pop(m)
        m2 == pop(m1)
    IN  IF m2.err # NoErr THEN m2
        ELSE Unit(push(push(push(m2, m1.ret), m2.ret), m1.ret))

---------------------------------------------------------------------------
(* InterpEvalStack (interp_stack.rs): the same record, the operations as   *)
(* that file writes them.                                                  *)

IES_of ==
    [stack |-> <<>>, err |-> NoErr, ret |-> NoValue, trace |-> <<>>]

IES_push(m, val) ==
    IF m.err # NoErr THEN m ELSE VecPush(m, val)

IES_pop(m) ==
    IF m.err # NoErr THEN m
    ELSE IF Len(m.stack) = 0 THEN Fail(m, StackUnderflow)
    ELSE VecPop(m)

\* match self.IES_pop() { Int { val: i } => i, _ => panic!(..) }
IES_pop_int(m) ==
    LET m1 == IES_pop(m)
    IN  IF m1.err # NoErr THEN m1
        ELSE IF m1.ret.kind # "Int" THEN Fail(m1, TypeMismatch)
        ELSE m1

\* match self.IES_pop() { Double { val: i } => i, _ => panic!(..) }
IES_pop_double(m) ==
    LET m1 == IES_pop(m)
    IN  IF m1.err # NoErr THEN m1
        ELSE IF m1.ret.kind # "Double" THEN Fail(m1, TypeMismatch)
        ELSE m1

\* self.IES_push(Int { val: r }) of an arithmetic result r, or its panic
IES_push_int(m, r) ==
    IF r.panic # NoErr THEN Fail(m, r.panic) ELSE Unit(IES_push(m, IntV(r.val)))

IES_aconst_null(m) == Unit(IES_push(m, IES_ObjRefV(0)))

IES_iconst(m, v) == Unit(IES_push(m, IntV(v)))

IES_iadd(m, checks) ==
    LET m1 == IES_pop_int(m)
        m2 == IES_pop_int(m1)
    IN  IF m2.err # NoErr THEN m2
        ELSE IES_push_int(m2, i32_add(m1.ret.i, m2.ret.i, checks))

\* an isub that takes its operands the other way round
IES_isub_swapped(m, checks) ==
    LET m1 == IES_pop_int(m)
        m2 == IES_pop_int(m1)
    IN  IF m2.err # NoErr THEN m2
        ELSE IES_push_int(m2, i32_sub(m2.ret.i, m1.ret.i, checks))

IES_isub(m, checks) ==
    LET m1 == IES_pop_int(m)
        m2 == IES_pop_int(m1)
    IN  IF m2.err # NoErr THEN m2
        ELSE IES_push_int(m2, i32_sub(m1.ret.i, m2.ret.i, checks))

IES_imul(m, checks) ==
    LET m1 == IES_pop_int(m)
        m2 == IES_pop_int(m1)
    IN  IF m2.err # NoErr THEN m2
        ELSE IES_push_int(m2, i32_mul(m1.ret.i, m2.ret.i, checks))

IES_irem(m) ==
    LET m1 == IES_pop_int(m)
        m2 == IES_pop_int(m1)
    IN  IF m2.err # NoErr THEN m2
        ELSE IES_push_int(m2, i32_rem(m2.ret.i, m1.ret.i))

IES_ixor(m) == m

IES_idiv(m) ==
    LET m1 == IES_pop_int(m)
        m2 == IES_pop_int(m1)
    IN  IF m2.err # NoErr THEN m2
        ELSE IES_push_int(m2, i32_div(m2.ret.i, m1.ret.i))

IES_iand(m) == m

IES_ineg(m, checks) ==
    LET m1 == IES_pop_int(m)
    IN  IF m1.err # NoErr THEN m1
        ELSE IES_push_int(m1, i32_neg(m1.ret.i, checks))

IES_ior(m) == m

IES_dadd(m) ==
    LET m1 == IES_pop_double(m)
        m2 == IES_pop_double(m1)
    IN  IF m2.err # NoErr THEN m2
        ELSE Unit(IES_push(m2, DoubleV(m1.ret.d + m2.ret.d)))

IES_dsub(m) ==
    LET m1 == IES_pop_double(m)
        m2 == IES_pop_double(m1)
    IN  IF m2.err # NoErr THEN m2
        ELSE Unit(IES_push(m2, DoubleV(m1.ret.d - m2.ret.d)))

IES_dmul(m) ==
    LET m1 == IES_pop_double(m)
        m2 == IES_pop_double(m1)
    IN  IF m2.err # NoErr THEN m2
        ELSE Unit(IES_push(m2, DoubleV(m1.ret.d * m2.ret.d)))

IES_dconst(m, v) == Unit(IES_push(m, DoubleV(v)))

IES_i2d(m) == m

IES_dup(m) ==
    LET m1 == IES_pop(m)
    IN  IF m1.err # NoErr THEN m1
        ELSE Unit(IES_push(IES_push(m1, m1.ret), m1.ret))

IES_dupX1(m) ==
    LET m1 == IES_pop(m)
        i1c == m1.ret
        m2 == IES_pop(m1)
    IN  IF m2.err # NoErr THEN m2
        ELSE Unit(IES_push(IES_push(IES_push(m2, m1.ret), m2.ret), i1c))

---------------------------------------------------------------------------
(* interp_local_vars (runtime.rs): the record [lvt, err, ret], lvt the     *)
(* array of 256 values, ret the value the last load() returned.            *)

LvtSize == 256

interp_local_vars_of ==
    [lvt |-> [i \in 0 .. LvtSize - 1 |-> IntV(0)], err |-> NoErr, ret |-> NoValue]

load(m, idx) ==
    IF m.err # NoErr THEN m ELSE [m EXCEPT !.ret = m.lvt[idx]]

\* a store that also clears the slot after idx
store_clobbering(m, idx, val) ==
    IF m.err # NoErr THEN m
    ELSE [m EXCEPT !.lvt[idx] = val, !.lvt[(idx + 1) % LvtSize] = IntV(0),
                   !.ret = NoValue]

store(m, idx, val) ==
    IF m.err # NoErr THEN m ELSE [m EXCEPT !.lvt[idx] = val, !.ret = NoValue]

\* the amount added by iinc: the code adds the literal 1, whatever incr is
iinc_amount(incr) == 1

iinc(m, idx, incr, checks) ==
    IF m.err # NoErr THEN m
    ELSE IF m.lvt[idx].kind # "Int" THEN Fail(m, TypeMismatch)
    ELSE LET r == i32_add(m.lvt[idx].i, iinc_amount(incr), checks)
         IN  IF r.panic # NoErr THEN Fail(m, r.panic)
             ELSE [m EXCEPT !.lvt[idx] = IntV(r.val), !.ret = NoValue]

---------------------------------------------------------------------------
(* Method and klass metadata (runtime.rs).  A String is a sequence of      *)
(* one-character strings; a Vec is a sequence; a HashMap is a function on  *)
(* the set of its keys.  Vec positions are counted from 0, as in the code. *)

EmptyMap == [x \in {} |-> 0]

\* an insert that keeps the key's earlier value
HashMapInsertIfAbsent(map, key, val) ==
    [x \in DOMAIN map \cup {key} |-> IF x \in DOMAIN map THEN map[x] ELSE val]

\* std HashMap::insert: the key's earlier value, if any, is replaced
HashMapInsert(map, key, val) ==
    [x \in DOMAIN map \cup {key} |-> IF x = key THEN val ELSE map[x]]

\* Vec::get(i)
VecGet(v, i) == v[i + 1]

\* the outcome of a call that returns a value or panics
Ok(v) == [err |-> NoErr, ret |-> v]
Err(kind) == [err |-> kind, ret |-> NoValue]

ot_method_of(klass_name, name, desc, flags, name_idx, desc_idx) ==
    [klass_name |-> klass_name,
     flags |-> flags,
     name |-> name,
     name_desc |-> name \o <<":">> \o desc,
     attrs |-> <<>>,
     code |-> <<>>,
     name_idx |-> desc_idx,
     desc_idx |-> desc_idx]

\* a key made of the name and descriptor alone
name_desc_only(meth) == meth.name_desc

get_fq_name_desc(meth) == meth.klass_name \o <<".">> \o meth.name_desc

\* the while loop of ot_klass::of, from position i on
RECURSIVE of_loop(_, _, _)
of_loop(methods, i, lookup) ==
    IF i < Len(methods)
    THEN of_loop(methods, i + 1,
                 HashMapInsert(lookup, get_fq_name_desc(VecGet(methods, i)), i))
    ELSE lookup

\* a copy of a Vec that leaves the instruction bytes of a method behind
to_vec_without_code(v) ==
    [i \in DOMAIN v |-> IF "code" \in DOMAIN v[i] THEN [v[i] EXCEPT !.code = <<>>] ELSE v[i]]

\* slice::to_vec: a new Vec of clones of the elements
to_vec(v) == v

set_code(meth, code) == [meth EXCEPT !.code = code]

get_code(meth) == meth.code

ot_klass_of(klass_name, super_klass, flags, cp_entries, methods) ==
    [name |-> klass_name,
     super_name |-> super_klass,
     flags |-> flags,
     cp_entries |-> to_vec(cp_entries),
     methods |-> to_vec(methods),
     name_desc_lookup |-> of_loop(methods, 0, EmptyMap)]

get_name(k) == k.name

get_method_by_name_and_desc(k, name_desc) ==
    IF name_desc \notin DOMAIN k.name_desc_lookup THEN Err(MethodNotFound)
    ELSE IF k.name_desc_lookup[name_desc] >= Len(k.methods) THEN Err(MethodNotFound)
    ELSE Ok(VecGet(k.methods, k.name_desc_lookup[name_desc]))

---------------------------------------------------------------------------
(* The constant pool (runtime.rs) *)

\* a numeric entry's val has a field name of its own, as a number is not
\* comparable with a String
cp_utf8(val) == [tag |-> "utf8", val |-> val]
cp_integer(val) == [tag |-> "integer", num |-> val]
cp_float(val) == [tag |-> "float", num |-> val]
cp_long(val) == [tag |-> "long", num |-> val]
cp_double(val) == [tag |-> "double", num |-> val]
cp_class(idx) == [tag |-> "class", idx |-> idx]
cp_string(idx) == [tag |-> "string", idx |-> idx]
cp_fieldref(clz_idx, nt_idx) ==
    [tag |-> "fieldref", clz_idx |-> clz_idx, nt_idx |-> nt_idx]
cp_methodref(clz_idx, nt_idx) ==
    [tag |-> "methodref", clz_idx |-> clz_idx, nt_idx |-> nt_idx]
cp_interface_methodref(clz_idx, nt_idx) ==
    [tag |-> "interface_methodref", clz_idx |-> clz_idx, nt_idx |-> nt_idx]
cp_name_and_type(name_idx, type_idx) ==
    [tag |-> "name_and_type", name_idx |-> name_idx, type_idx |-> type_idx]

lookup_cp(k, cp_idx) ==
    IF cp_idx < Len(k.cp_entries) THEN Ok(VecGet(k.cp_entries, cp_idx))
    ELSE Err(InvalidConstantPoolIndex)

\* the outcome of a resolution: seen lists the indices looked up, in order
Resolved(str, seen) == [err |-> NoErr, ret |-> str, seen |-> seen]
Unresolved(kind, seen) == [err |-> kind, ret |-> NoValue, seen |-> seen]

\* a join that puts the right operand first
StrJoinSwapped(l, sep, r) ==
    IF l.err # NoErr THEN l
    ELSE IF r.err # NoErr THEN Unresolved(r.err, l.seen \o r.seen)
    ELSE Resolved(r.ret \o sep \o l.ret, l.seen \o r.seen)

\* left + sep + &right: the right operand is evaluated after the left one,
\* and only when the left one returned
StrJoin(l, sep, r) ==
    IF l.err # NoErr THEN l
    ELSE IF r.err # NoErr THEN Unresolved(r.err, l.seen \o r.seen)
    ELSE Resolved(l.ret \o sep \o r.ret, l.seen \o r.seen)

\* what the call adds to the indices its callee looked up
Seen(i, r) == [r EXCEPT !.seen = <<i>> \o @]

\* a resolver that stringifies a string reference as a class reference
RECURSIVE cp_as_string_lenient(_, _, _)
cp_as_string_lenient(k, i, depth) ==
    LET e == lookup_cp(k, i) IN
    IF e.err # NoErr THEN Unresolved(e.err, <<i>>)
    ELSE IF depth >= Len(k.cp_entries) THEN Unresolved(StackExhausted, <<i>>)
    ELSE CASE e.ret.tag = "utf8" -> Resolved(e.ret.val, <<i>>)
           [] e.ret.tag \in {"class", "string"} ->
                Seen(i, cp_as_string_lenient(k, e.ret.idx, depth + 1))
           [] e.ret.tag = "methodref" ->
                Seen(i, StrJoin(cp_as_string_lenient(k, e.ret.clz_idx, depth + 1), <<".">>,
                                cp_as_string_lenient(k, e.ret.nt_idx, depth + 1)))
           [] e.ret.tag = "name_and_type" ->
                Seen(i, StrJoin(cp_as_string_lenient(k, e.ret.name_idx, depth + 1), <<":">>,
                                cp_as_string_lenient(k, e.ret.type_idx, depth + 1)))
           [] OTHER -> Unresolved(UnsupportedConstantKind, <<i>>)

\* cp_as_string called at the given depth of its own recursion.  A call
\* that finds an entry at a depth of the length of the pool has an index
\* twice among its callers' and its own, so that it recurs for ever.
RECURSIVE cp_as_string_at(_, _, _)
cp_as_string_at(k, i, depth) ==
    LET e == lookup_cp(k, i) IN
    IF e.err # NoErr THEN Unresolved(e.err, <<i>>)
    ELSE IF depth >= Len(k.cp_entries) THEN Unresolved(StackExhausted, <<i>>)
    ELSE CASE e.ret.tag = "utf8" -> Resolved(e.ret.val, <<i>>)
           [] e.ret.tag = "class" -> Seen(i, cp_as_string_at(k, e.ret.idx, depth + 1))
           [] e.ret.tag = "methodref" ->
                Seen(i, StrJoin(cp_as_string_at(k, e.ret.clz_idx, depth + 1), <<".">>,
                                cp_as_string_at(k, e.ret.nt_idx, depth + 1)))
           [] e.ret.tag = "name_and_type" ->
                Seen(i, StrJoin(cp_as_string_at(k, e.ret.name_idx, depth + 1), <<":">>,
                                cp_as_string_at(k, e.ret.type_idx, depth + 1)))
           [] OTHER -> Unresolved(UnsupportedConstantKind, <<i>>)

cp_as_string(k, i) == cp_as_string_at(k, i, 0)

---------------------------------------------------------------------------
(* shared_klass_repo (runtime.rs) *)

shared_klass_repo_new == [klass_lookup |-> EmptyMap]

\* an add_klass that keeps the klass already registered under the name
add_klass_keep_first(r, k) ==
    IF get_name(k) \in DOMAIN r.klass_lookup THEN r
    ELSE [r EXCEPT !.klass_lookup = HashMapInsert(@, get_name(k), k)]

add_klass(r, k) ==
    [r EXCEPT !.klass_lookup = HashMapInsert(@, get_name(k), k)]

lookup_klass(r, klass_name) ==
    IF klass_name \in DOMAIN r.klass_lookup THEN Ok(r.klass_lookup[klass_name])
    ELSE Err(ClassNotFound)

\* a lookup_method_exact that answers for the first klass of the repository
lookup_method_exact_any_klass(r, klass_name, fq_name_desc) ==
    IF DOMAIN r.klass_lookup = {} THEN Err(ClassNotFound)
    ELSE get_method_by_name_and_desc(
             r.klass_lookup[CHOOSE n \in DOMAIN r.klass_lookup : TRUE], fq_name_desc)

lookup_method_exact(r, klass_name, fq_name_desc) ==
    IF klass_name \in DOMAIN r.klass_lookup
    THEN get_method_by_name_and_desc(r.klass_lookup[klass_name], fq_name_desc)
    ELSE Err(ClassNotFound)

\* vm_context::allocate_obj, which hands the klass to the heap, and the
\* heap's allocate_obj
heap_allocate_obj(klass) == get_null
allocate_obj(klass) == heap_allocate_obj(klass)

ot_field_of(klass_name, field_name, field_flags, name, desc) ==
    [class_name |-> klass_name,
     flags |-> field_flags,
     name_idx |-> name,
     desc_idx |-> desc,
     name |-> field_name,
     attrs |-> <<>>]

DUMMY_KLASS == <<"D", "U", "M", "M", "Y", "_", "K", "L", "A", "S", "S">>
DUMMY_METH == <<"D", "U", "M", "M", "Y", "_", "M", "E", "T", "H">>
DUMMY_DESC == <<"D", "U", "M", "M", "Y", "_", "D", "E", "S", "C">>
DUMMY_FIELD == <<"D", "U", "M", "M", "Y", "_", "F", "I", "E", "L", "D">>

\* a lookup_method_virtual that names the klass asked for
lookup_method_virtual_of_klass(r, klass_name, idx) ==
    Ok(ot_method_of(klass_name, DUMMY_METH, DUMMY_DESC, 0, 1, 2))

lookup_method_virtual(r, klass_name, idx) ==
    Ok(ot_method_of(DUMMY_KLASS, DUMMY_METH, DUMMY_DESC, 0, 1, 2))

lookup_field(r, klass_name, idx) ==
    Ok(ot_field_of(DUMMY_KLASS, DUMMY_FIELD, 0, 1, 2))

---------------------------------------------------------------------------
(* Inputs of the model *)

\* the values the caller pushes
PushVals ==
    {IntV(10), IntV(3), IntV(0 - 1), IntV(IntMin), DoubleV(2), ObjRefV(get_null)}

\* the literals of iconst and dconst
IconstVals == {0}
DconstVals == {1}

\* the local-variable slots, values and iinc amounts the caller uses
LvtIdx == {0, 5, LvtSize - 1}
LvtVals == {IntV(42), IntV(IntMax), DoubleV(2)}
IncrVals == {0, 2, 255}

\* the value of interp_stack.rs that stands for a value of runtime.rs
ToIES(v) == IF v.kind = "ObjRef" THEN IES_ObjRefV(0) ELSE v

---------------------------------------------------------------------------
(* The operand stack: one action per operation, applied to both            *)
(* implementations.                                                        *)

Op(name, arg) == [op |-> name, arg |-> arg]

StackActive == es.err = NoErr /\ ies.err = NoErr /\ Len(hist) < MaxOps

Step(name, arg, m, im) ==
    /\ StackActive
    /\ es' = m
    /\ ies' = im
    /\ hist' = Append(hist, Op(name, arg))
    /\ UNCHANGED <<lvtVars, klassVars, repoVars>>

Push(v) == Step("push", v, Unit(push(es, v)), Unit(IES_push(ies, ToIES(v))))

Pop == Step("pop", NoValue, pop(es), IES_pop(ies))

AconstNull == Step("aconst_null", NoValue, aconst_null(es), IES_aconst_null(ies))

Iconst(v) == Step("iconst", IntV(v), iconst(es, v), IES_iconst(ies, v))

Dconst(v) == Step("dconst", DoubleV(v), dconst(es, v), IES_dconst(ies, v))

Iadd == \E checks \in BOOLEAN :
    Step("iadd", NoValue, iadd(es, checks), IES_iadd(ies, checks))

Isub == \E checks \in BOOLEAN :
    Step("isub", NoValue, isub(es, checks), IES_isub(ies, checks))

Imul == \E checks \in BOOLEAN :
    Step("imul", NoValue, imul(es, checks), IES_imul(ies, checks))

Idiv == Step("idiv", NoValue, idiv(es), IES_idiv(ies))

Irem == Step("irem", NoValue, irem(es), IES_irem(ies))

Ineg == \E checks \in BOOLEAN :
    Step("ineg", NoValue, ineg(es, checks), IES_ineg(ies, checks))

Dadd == Step("dadd", NoValue, dadd(es), IES_dadd(ies))

Dsub == Step("dsub", NoValue, dsub(es), IES_dsub(ies))

Dmul == Step("dmul", NoValue, dmul(es), IES_dmul(ies))

Dup == Step("dup", NoValue, dup(es), IES_dup(ies))

DupX1 == Step("dupX1", NoValue, dupX1(es), IES_dupX1(ies))

Iand == Step("iand", NoValue, Unit(iand(es)), Unit(IES_iand(ies)))

Ior == Step("ior", NoValue, Unit(ior(es)), Unit(IES_ior(ies)))

Ixor == Step("ixor", NoValue, Unit(ixor(es)), Unit(IES_ixor(ies)))

I2d == Step("i2d", NoValue, Unit(i2d(es)), Unit(IES_i2d(ies)))

---------------------------------------------------------------------------
(* The local variable table: one action per operation. *)

LvtOp(name, idx, val, incr) == [op |-> name, idx |-> idx, val |-> val, incr |-> incr]

\* the interp_local_vars object, as the operations take it
lv == [lvt |-> lvt, err |-> lstat.err, ret |-> lstat.ret]

LvtActive == lstat.err = NoErr /\ Len(lhist) < MaxLvtOps

LvtStep(e, m) ==
    /\ LvtActive
    /\ lvt' = m.lvt
    /\ lstat' = [err |-> m.err, ret |-> m.ret]
    /\ lhist' = Append(lhist, e)
    /\ UNCHANGED <<stackVars, klassVars, repoVars>>

Load(idx) == LvtStep(LvtOp("load", idx, NoValue, 0), load(lv, idx))

Store(idx, val) == LvtStep(LvtOp("store", idx, val, 0), store(lv, idx, val))

Iinc(idx, incr) == \E checks \in BOOLEAN :
    LvtStep(LvtOp("iinc", idx, NoValue, incr), iinc(lv, idx, incr, checks))

---------------------------------------------------------------------------
(* Klass metadata: the caller constructs a klass from a method list, then  *)
(* looks methods up in it.                                                 *)

\* the arguments of ot_method::of: owner, name, descriptor, flags.  Two
\* share owner, name and descriptor; two others have different names and
\* descriptors that concatenate to the same text; one has another owner.
MethodArgs ==
    {[klass_name |-> <<"K">>, name |-> <<"f">>, desc |-> <<"x">>, flags |-> 1],
     [klass_name |-> <<"K">>, name |-> <<"f">>, desc |-> <<"x">>, flags |-> 8],
     [klass_name |-> <<"L">>, name |-> <<"g">>, desc |-> <<"x">>, flags |-> 1],
     [klass_name |-> <<"K">>, name |-> <<"f">>, desc |-> <<"x", ":", "x">>, flags |-> 1],
     [klass_name |-> <<"K">>, name |-> <<"f", ":", "x">>, desc |-> <<"x">>, flags |-> 1]}

MethodOf(a) == ot_method_of(a.klass_name, a.name, a.desc, a.flags, 1, 2)

\* the sequences over S of length n, and of length at most n
RECURSIVE SeqsOfLen(_, _)
SeqsOfLen(S, n) ==
    IF n = 0 THEN {<<>>}
    ELSE {Append(q, x) : q \in SeqsOfLen(S, n - 1), x \in S}

SeqsUpTo(S, n) == UNION {SeqsOfLen(S, k) : k \in 0 .. n}

KlassNames == {<<"K">>, <<"L">>}
SuperName == <<"O">>

\* the keys looked up: each method's name:descriptor, each method's
\* owner.name:descriptor, and a key of no method
LookupKeys ==
    {a.name \o <<":">> \o a.desc : a \in MethodArgs}
        \cup {a.klass_name \o <<".">> \o a.name \o <<":">> \o a.desc : a \in MethodArgs}
        \cup {<<"h", ":", "x">>}

KlassCall(name, key) == [op |-> name, key |-> key]

KlassOf(klass_name, args) ==
    /\ kcall.op = "none"
    /\ kl' = ot_klass_of(klass_name, SuperName, 1, <<>>,
                         [i \in DOMAIN args |-> MethodOf(args[i])])
    /\ kargs' = args
    /\ cmeth' = cmeth
    /\ kcall' = KlassCall("of", <<>>)
    /\ kstat' = Ok(NoValue)
    /\ UNCHANGED <<stackVars, lvtVars, repoVars>>

GetMethodByNameAndDesc(key) ==
    /\ kcall.op # "none"
    /\ kstat.err = NoErr
    /\ kcall' = KlassCall("get_method_by_name_and_desc", key)
    /\ kstat' = get_method_by_name_and_desc(kl, key)
    /\ UNCHANGED <<kl, kargs, cmeth, stackVars, lvtVars, repoVars>>

\* a pool whose entry 5 is a method reference to Foo.bar:()V
FooPool ==
    <<cp_utf8(<<"F", "o", "o">>),
      cp_class(0),
      cp_utf8(<<"b", "a", "r">>),
      cp_utf8(<<"(", ")", "V">>),
      cp_name_and_type(2, 3),
      cp_methodref(1, 4)>>

\* the indices stored in entries and asked for: the last is out of range
CpIdx == 0 .. Len(FooPool)

CpEntries ==
    {cp_utf8(<<"x">>), cp_integer(7), cp_float(1), cp_long(7), cp_double(1),
     cp_string(0), cp_fieldref(1, 4), cp_interface_methodref(1, 4)}
        \cup {cp_class(i) : i \in CpIdx}
        \cup {cp_name_and_type(n, t) : n, t \in {2, 3, 4, Len(FooPool)}}
        \cup {cp_methodref(c, n) : c, n \in {0, 1, 4, 5, Len(FooPool)}}

\* the pools the caller constructs a klass from: FooPool, and FooPool with
\* one entry replaced
CpPools ==
    {FooPool} \cup {[FooPool EXCEPT ![p] = e] : p \in DOMAIN FooPool, e \in CpEntries}

\* a call that takes an index
KlassCallAt(name, idx) == [op |-> name, idx |-> idx]

KlassOfPool(pool) ==
    /\ kcall.op = "none"
    /\ kl' = ot_klass_of(<<"K">>, SuperName, 1, pool, <<>>)
    /\ kargs' = <<>>
    /\ cmeth' = cmeth
    /\ kcall' = KlassCall("of", <<>>)
    /\ kstat' = Ok(NoValue)
    /\ UNCHANGED <<stackVars, lvtVars, repoVars>>

CpAsString(i) ==
    /\ kcall.op # "none"
    /\ kstat.err = NoErr
    /\ kcall' = KlassCallAt("cp_as_string", i)
    /\ kstat' = cp_as_string(kl, i)
    /\ UNCHANGED <<kl, kargs, cmeth, stackVars, lvtVars, repoVars>>

---------------------------------------------------------------------------
(* The class repository: klasses are added and looked up by name. *)

\* the klasses the caller adds
RepoKlasses ==
    {ot_klass_of(n, SuperName, 1, <<>>, [i \in DOMAIN args |-> MethodOf(args[i])]) :
        n \in KlassNames,
        args \in {<<>>,
                  <<[klass_name |-> <<"K">>, name |-> <<"f">>, desc |-> <<"x">>, flags |-> 1]>>,
                  <<[klass_name |-> <<"K">>, name |-> <<"f">>, desc |-> <<"x">>, flags |-> 1],
                    [klass_name |-> <<"L">>, name |-> <<"g">>, desc |-> <<"x">>, flags |-> 1]>>}}

\* the names looked up: the second never names an added klass
RepoNames == KlassNames \cup {<<"M">>}

RepoCall(name, klass_name) == [op |-> name, name |-> klass_name]

RepoActive == rstat.err = NoErr

AddKlass(k) ==
    /\ RepoActive
    /\ Len(adds) < MaxAdds
    /\ repo' = add_klass(repo, k)
    /\ adds' = Append(adds, k)
    /\ rcall' = RepoCall("add_klass", get_name(k))
    /\ rstat' = Ok(NoValue)
    /\ UNCHANGED <<stackVars, lvtVars, klassVars>>

LookupKlass(klass_name) ==
    /\ RepoActive
    /\ rcall' = RepoCall("lookup_klass", klass_name)
    /\ rstat' = lookup_klass(repo, klass_name)
    /\ UNCHANGED <<repo, adds, stackVars, lvtVars, klassVars>>

\* the keys and the indices the lookups are called with
RepoKeys == {<<"K", ".", "f", ":", "x">>, <<"L", ".", "g", ":", "x">>, <<"f", ":", "x">>}
RepoIdx == {0, 1, 65535}

\* a call that takes a class name and a key or an index
RepoCallAt(name, klass_name, at) == [op |-> name, name |-> klass_name, at |-> at]

LookupMethodExact(klass_name, key) ==
    /\ RepoActive
    /\ rcall' = RepoCallAt("lookup_method_exact", klass_name, key)
    /\ rstat' = lookup_method_exact(repo, klass_name, key)
    /\ UNCHANGED <<repo, adds, stackVars, lvtVars, klassVars>>

LookupMethodVirtual(klass_name, idx) ==
    /\ RepoActive
    /\ rcall' = RepoCallAt("lookup_method_virtual", klass_name, idx)
    /\ rstat' = lookup_method_virtual(repo, klass_name, idx)
    /\ UNCHANGED <<repo, adds, stackVars, lvtVars, klassVars>>

LookupField(klass_name, idx) ==
    /\ RepoActive
    /\ rcall' = RepoCallAt("lookup_field", klass_name, idx)
    /\ rstat' = lookup_field(repo, klass_name, idx)
    /\ UNCHANGED <<repo, adds, stackVars, lvtVars, klassVars>>

\* the object handles is_null is asked about: mark words and class
\* identifiers that are zero, one and large
ObjHandles == {ot_obj(mk, id) : mk \in {0, 1, IntMax}, id \in {0, 1, IntMax}}

\* a call that takes or returns an object handle; from names the call the
\* handle came from
ObjCall(name, o, from) == [op |-> name, obj |-> o, from |-> from]

GetNull ==
    /\ RepoActive
    /\ rcall' = ObjCall("get_null", get_null, "get_null")
    /\ rstat' = Ok(get_null)
    /\ UNCHANGED <<repo, adds, stackVars, lvtVars, klassVars>>

AllocateObj(k) ==
    /\ RepoActive
    /\ rcall' = ObjCall("allocate_obj", allocate_obj(k), "allocate_obj")
    /\ rstat' = Ok(allocate_obj(k))
    /\ UNCHANGED <<repo, adds, stackVars, lvtVars, klassVars>>

IsNull(o, from) ==
    /\ RepoActive
    /\ rcall' = ObjCall("is_null", o, from)
    /\ rstat' = Ok(is_null(o))
    /\ UNCHANGED <<repo, adds, stackVars, lvtVars, klassVars>>

\* is_null called on the handle the last call returned
IsNullOfReturned ==
    /\ rcall.op \in {"get_null", "allocate_obj"}
    /\ IsNull(rstat.ret, rcall.op)

---------------------------------------------------------------------------
(* Copies: the caller keeps method objects, builds a klass from them, adds *)
(* it to the repository, and calls set_code on the objects it holds.       *)

\* the instruction bytes set_code is called with
CodeVals == {<<177>>, <<3, 172>>}

CallerKlassName == <<"K">>
CallerKey == <<"K", ".", "f", ":", "x">>

\* set_code on a method object the caller holds
SetCodeOnCaller(i, code) ==
    /\ cmeth' = [cmeth EXCEPT ![i] = set_code(@, code)]
    /\ UNCHANGED <<kl, kargs, kcall, kstat, stackVars, lvtVars, repoVars>>

\* the caller constructs its klass, or replaces it by a new one, from the
\* method objects it holds
KlassOfCaller ==
    /\ kl' = ot_klass_of(CallerKlassName, SuperName, 1, <<>>, cmeth)
    /\ kargs' = cmeth
    /\ kcall' = KlassCall("of", <<>>)
    /\ kstat' = Ok(NoValue)
    /\ UNCHANGED <<cmeth, stackVars, lvtVars, repoVars>>

\* set_code on the method the caller's klass returned
SetCodeOnFound(code) ==
    /\ kcall.op = "get_method_by_name_and_desc"
    /\ kstat.err = NoErr
    /\ kcall' = KlassCall("set_code", kcall.key)
    /\ kstat' = Ok(set_code(kstat.ret, code))
    /\ UNCHANGED <<kl, kargs, cmeth, stackVars, lvtVars, repoVars>>

\* the caller adds a clone of its klass to the repository
AddCallerKlass ==
    /\ kcall.op # "none"
    /\ AddKlass(kl)

\* set_code on the method the repository returned
SetCodeOnReturned(code) ==
    /\ rcall.op = "lookup_method_exact"
    /\ rstat.err = NoErr
    /\ rcall' = RepoCallAt("set_code", rcall.name, rcall.at)
    /\ rstat' = Ok(set_code(rstat.ret, code))
    /\ UNCHANGED <<repo, adds, stackVars, lvtVars, klassVars>>

---------------------------------------------------------------------------
(* Specifications *)

NoStack == es = NotBuilt /\ ies = NotBuilt /\ hist = <<>>
NoLvt == lvt = NotBuilt /\ lstat = NotBuilt /\ lhist = <<>>
NoKlass ==
    /\ kl = NotBuilt /\ kargs = <<>> /\ cmeth = <<>>
    /\ kcall = KlassCall("none", <<>>) /\ kstat = Ok(NoValue)
NoRepo ==
    repo = NotBuilt /\ adds = <<>> /\ rcall = RepoCall("none", <<>>) /\ rstat = Ok(NoValue)

\* a run of the operand stack constructs the two stacks
Init ==
    /\ es = interp_eval_stack_of
    /\ ies = IES_of
    /\ hist = <<>>
    /\ NoLvt
    /\ NoKlass
    /\ NoRepo

\* a run of the local variable table constructs the table
InitLvt ==
    /\ NoStack
    /\ lvt = interp_local_vars_of.lvt
    /\ lstat = [err |-> interp_local_vars_of.err, ret |-> interp_local_vars_of.ret]
    /\ lhist = <<>>
    /\ NoKlass
    /\ NoRepo

\* a run of the klass metadata starts before the klass is constructed
InitKlass ==
    /\ NoStack
    /\ NoLvt
    /\ NoKlass
    /\ NoRepo

\* a run of the class repository constructs the repository
InitRepo ==
    /\ NoStack
    /\ NoLvt
    /\ NoKlass
    /\ repo = shared_klass_repo_new
    /\ adds = <<>>
    /\ rcall = RepoCall("new", <<>>)
    /\ rstat = Ok(NoValue)

\* a run of the copies starts with the method the caller made, before it
\* constructs a klass, and with an empty repository
InitCopy ==
    /\ NoStack
    /\ NoLvt
    /\ kl = NotBuilt /\ kargs = <<>>
    /\ cmeth = <<ot_method_of(CallerKlassName, <<"f">>, <<"x">>, 1, 1, 2)>>
    /\ kcall = KlassCall("none", <<>>) /\ kstat = Ok(NoValue)
    /\ repo = shared_klass_repo_new
    /\ adds = <<>>
    /\ rcall = RepoCall("new", <<>>)
    /\ rstat = Ok(NoValue)

\* the operand stack
Next ==
    \/ \E v \in PushVals : Push(v)
    \/ Pop
    \/ \E v \in IconstVals : Iconst(v)
    \/ Iadd
    \/ Isub
    \/ Imul
    \/ Idiv
    \/ Irem
    \/ Ineg
    \/ Dadd
    \/ Dsub
    \/ Dmul
    \/ Dup
    \/ DupX1

Spec == Init /\ [][Next]_vars

\* the operand stack with the whole instruction set, on shorter runs
ShortRun == Len(hist) < MaxAllOps

NextAll ==
    \/ ShortRun /\ \E v \in PushVals : Push(v)
    \/ ShortRun /\ Pop
    \/ ShortRun /\ \E v \in IconstVals : Iconst(v)
    \/ ShortRun /\ Iadd
    \/ ShortRun /\ Isub
    \/ ShortRun /\ Imul
    \/ ShortRun /\ Idiv
    \/ ShortRun /\ Irem
    \/ ShortRun /\ Ineg
    \/ ShortRun /\ Dadd
    \/ ShortRun /\ Dsub
    \/ ShortRun /\ Dmul
    \/ ShortRun /\ Dup
    \/ ShortRun /\ DupX1
    \/ ShortRun /\ AconstNull
    \/ ShortRun /\ \E v \in DconstVals : Dconst(v)
    \/ ShortRun /\ Iand
    \/ ShortRun /\ Ior
    \/ ShortRun /\ Ixor
    \/ ShortRun /\ I2d

SpecAll == Init /\ [][NextAll]_vars

\* the local variable table
NextLvt ==
    \/ \E idx \in LvtIdx : Load(idx)
    \/ \E idx \in LvtIdx, val \in LvtVals : Store(idx, val)
    \/ \E idx \in LvtIdx, incr \in IncrVals : Iinc(idx, incr)

SpecLvt == InitLvt /\ [][NextLvt]_vars

\* klass metadata
NextKlass ==
    \/ \E n \in KlassNames, args \in SeqsUpTo(MethodArgs, MaxMethods) : KlassOf(n, args)
    \/ \E key \in LookupKeys : GetMethodByNameAndDesc(key)
    \/ \E pool \in CpPools : KlassOfPool(pool)
    \/ \E i \in CpIdx : CpAsString(i)

SpecKlass == InitKlass /\ [][NextKlass]_vars

\* the class repository
NextRepo ==
    \/ \E k \in RepoKlasses : AddKlass(k)
    \/ \E n \in RepoNames : LookupKlass(n)
    \/ \E n \in RepoNames, key \in RepoKeys : LookupMethodExact(n, key)
    \/ \E n \in RepoNames, idx \in RepoIdx : LookupMethodVirtual(n, idx)
    \/ \E n \in RepoNames, idx \in RepoIdx : LookupField(n, idx)
    \/ GetNull
    \/ \E k \in RepoKlasses : AllocateObj(k)
    \/ \E o \in ObjHandles : IsNull(o, "caller")
    \/ IsNullOfReturned

SpecRepo == InitRepo /\ [][NextRepo]_vars

\* copies of methods and klasses
NextCopy ==
    \/ \E i \in DOMAIN cmeth, code \in CodeVals : SetCodeOnCaller(i, code)
    \/ KlassOfCaller
    \/ GetMethodByNameAndDesc(CallerKey)
    \/ \E code \in CodeVals : SetCodeOnFound(code)
    \/ AddCallerKlass
    \/ LookupKlass(CallerKlassName)
    \/ LookupMethodExact(CallerKlassName, CallerKey)
    \/ \E code \in CodeVals : SetCodeOnReturned(code)

SpecCopy == InitCopy /\ [][NextCopy]_vars

---------------------------------------------------------------------------
(* Properties of the operand stack *)

Top(s) == s[Len(s)]
LastOp == hist[Len(hist)]

\* the last three operations were push(Int a); push(Int b); <name>
PushPushThen(name) ==
    /\ Len(hist) >= 3
    /\ hist[Len(hist) - 2].op = "push" /\ hist[Len(hist) - 2].arg.kind = "Int"
    /\ hist[Len(hist) - 1].op = "push" /\ hist[Len(hist) - 1].arg.kind = "Int"
    /\ hist[Len(hist)].op = name

FirstPushed == hist[Len(hist) - 2].arg.i
SecondPushed == hist[Len(hist) - 1].arg.i

\* m completed its last call and holds v on top
LeavesOnTop(m, v) == m.err = NoErr /\ Len(m.stack) > 0 /\ Top(m.stack) = v

\* C1: push(Int a); push(Int b); isub() leaves Int (a - b) on top, in both
\* implementations (a - b taken in 32 bits).  The code computes b - a.
C1_IsubFirstMinusSecond ==
    PushPushThen("isub") =>
        /\ LeavesOnTop(es, IntV(wrapping_sub(FirstPushed, SecondPushed)))
        /\ LeavesOnTop(ies, IntV(wrapping_sub(FirstPushed, SecondPushed)))

\* the push that a pop at the end of the events t[1..k] answers, 0 if none:
\* `open` pops met on the way back are still to be answered
RECURSIVE MatchingPush(_, _, _)
MatchingPush(t, k, open) ==
    IF k = 0 THEN 0
    ELSE IF t[k][1] = "pop" THEN MatchingPush(t, k - 1, open + 1)
    ELSE IF open = 0 THEN k
    ELSE MatchingPush(t, k - 1, open - 1)

\* every pop() of the trace returned the latest pushed value not yet popped
Lifo(t) ==
    \A p \in DOMAIN t :
        t[p][1] = "pop" =>
            /\ MatchingPush(t, p - 1, 0) > 0
            /\ t[MatchingPush(t, p - 1, 0)][2] = t[p][2]

\* the caller's pop() handed back the value of the last pop event
PopReturnsLast(m) ==
    (Len(hist) > 0 /\ LastOp.op = "pop" /\ m.err = NoErr) =>
        /\ Len(m.trace) > 0
        /\ Top(m.trace) = <<"pop", m.ret>>

\* C3: pop() returns the most recently pushed value not yet popped, whatever
\* pushes and pops, the instructions' own included, came before; and
\* push(v1); push(v2); pop() returns v2, the next pop() returns v1.
C3_Lifo ==
    /\ Lifo(es.trace) /\ Lifo(ies.trace)
    /\ PopReturnsLast(es) /\ PopReturnsLast(ies)
    /\ (Len(hist) >= 2 /\ hist[Len(hist) - 1].op = "push" /\ LastOp.op = "pop") =>
            /\ es.err = NoErr /\ es.ret = hist[Len(hist) - 1].arg
            /\ ies.err = NoErr /\ ies.ret = ToIES(hist[Len(hist) - 1].arg)
    /\ (/\ Len(hist) >= 4
        /\ hist[Len(hist) - 3].op = "push" /\ hist[Len(hist) - 2].op = "push"
        /\ hist[Len(hist) - 1].op = "pop" /\ LastOp.op = "pop") =>
            /\ es.err = NoErr /\ es.ret = hist[Len(hist) - 3].arg
            /\ ies.err = NoErr /\ ies.ret = ToIES(hist[Len(hist) - 3].arg)

C3_Witness ==
    /\ Len(hist) = 4
    /\ hist[1].op = "push" /\ hist[2].op = "push" /\ hist[1].arg # hist[2].arg
    /\ hist[3].op = "pop" /\ hist[4].op = "pop"
    /\ es.ret = hist[1].arg /\ es.stack = <<>>

Count(t, what) == Cardinality({k \in DOMAIN t : t[k][1] = what})

\* the numbers of values pushed and popped before the caller's last pop():
\* a pop() that returned a value is itself the last event of the trace
PushedBefore(m) == Count(m.trace, "push")
PoppedBefore(m) ==
    IF m.err = NoErr THEN Count(m.trace, "pop") - 1 ELSE Count(m.trace, "pop")

PopFailsIffEmpty(m) ==
    /\ m.err = NoErr => (Len(m.stack) = 0 <=> Count(m.trace, "push") = Count(m.trace, "pop"))
    /\ (Len(hist) > 0 /\ LastOp.op = "pop") =>
        /\ m.err \in {NoErr, StackUnderflow}
        /\ m.err = StackUnderflow <=> PushedBefore(m) = PoppedBefore(m)
        /\ m.err = StackUnderflow => m.ret = NoValue
        /\ m.err = NoErr => m.ret # NoValue

\* C4: pop() fails with StackUnderflow, returning no value, exactly when as
\* many values were pushed as popped before it, which is when the stack is
\* empty.
C4_PopUnderflow == PopFailsIffEmpty(es) /\ PopFailsIffEmpty(ies)

C4_Witness ==
    /\ Len(hist) = 3 /\ hist[1].op = "push" /\ hist[2].op = "pop" /\ hist[3].op = "pop"
    /\ es.err = StackUnderflow /\ Count(es.trace, "push") = 1

\* a / b and a rem b in 32 bits, b # 0, as the instruction set defines them
Quotient(a, b) == IF a = IntMin /\ b = 0 - 1 THEN IntMin ELSE TruncDiv(a, b)
Remainder(a, b) == IF a = IntMin /\ b = 0 - 1 THEN 0 ELSE a - b * TruncDiv(a, b)

\* C5: push(Int a); push(Int b); idiv() with b # 0 leaves Int (a / b) on top,
\* and irem() leaves Int (a rem b).  The code panics on MIN / -1.
C5_IdivIremDividendFirst ==
    /\ (PushPushThen("idiv") /\ SecondPushed # 0) =>
            LeavesOnTop(es, IntV(Quotient(FirstPushed, SecondPushed)))
    /\ (PushPushThen("irem") /\ SecondPushed # 0) =>
            LeavesOnTop(es, IntV(Remainder(FirstPushed, SecondPushed)))

IntBinOps == {"iadd", "isub", "imul", "idiv", "irem"}
DoubleBinOps == {"dadd", "dsub", "dmul"}

\* the step is a call of an operation named in names
Calls(names) == hist' # hist /\ hist'[Len(hist')].op \in names

\* an operation popping `arity` values from s pops one that is not of kind:
\* the top, or with a top of that kind the value beneath it
PopsWrongKind(s, kind, arity) ==
    /\ Len(s) >= 1
    /\ \/ Top(s).kind # kind
       \/ arity = 2 /\ Len(s) >= 2 /\ s[Len(s) - 1].kind # kind

\* s is what is left of t after taking values off its top
IsPrefix(s, t) == Len(s) <= Len(t) /\ s = SubSeq(t, 1, Len(s))

\* the call failed with TypeMismatch, pushed nothing and rewrote no value
RejectsOperand(m, n) ==
    /\ n.err = TypeMismatch
    /\ Len(n.stack) < Len(m.stack) /\ IsPrefix(n.stack, m.stack)
    /\ \A k \in Len(m.trace) + 1 .. Len(n.trace) : n.trace[k][1] = "pop"

TypeChecked(m, n) ==
    /\ (Calls(IntBinOps) /\ PopsWrongKind(m.stack, "Int", 2)) => RejectsOperand(m, n)
    /\ (Calls({"ineg"}) /\ PopsWrongKind(m.stack, "Int", 1)) => RejectsOperand(m, n)
    /\ (Calls(DoubleBinOps) /\ PopsWrongKind(m.stack, "Double", 2)) => RejectsOperand(m, n)

\* C6: an integer instruction (iadd, isub, imul, idiv, irem, ineg) fails with
\* TypeMismatch whenever a value it pops is not an Int, on top or beneath
\* the top, and then pushes nothing and coerces nothing; the double
\* instructions do the same on a value that is not a Double.
C6_TypeMismatch == [][TypeChecked(es, es') /\ TypeChecked(ies, ies')]_vars

\* an Int on top of a Double: iadd met the value beneath the top
C6_Witness ==
    /\ Len(hist) = 3
    /\ hist[1] = Op("push", DoubleV(2)) /\ hist[2] = Op("push", IntV(3))
    /\ hist[3].op = "iadd"
    /\ es.err = TypeMismatch /\ es.stack = <<>>

DupEffect(m, n) ==
    /\ (Calls({"dup"}) /\ Len(m.stack) >= 1) =>
            /\ n.err = NoErr
            /\ n.stack = Append(m.stack, Top(m.stack))
    /\ (Calls({"dupX1"}) /\ Len(m.stack) >= 2) =>
            /\ n.err = NoErr
            /\ n.stack = SubSeq(m.stack, 1, Len(m.stack) - 2)
                            \o <<Top(m.stack), m.stack[Len(m.stack) - 1], Top(m.stack)>>

\* C8: dup() turns [..., x] into [..., x, x] and dupX1() turns [..., b, a]
\* into [..., a, b, a]: the values beneath are unchanged and the depth grows
\* by one.
C8_DupDupX1 == [][DupEffect(es, es') /\ DupEffect(ies, ies')]_vars

C8_Witness ==
    /\ Len(hist) = 4 /\ hist[4].op = "dupX1"
    /\ es.stack = <<DoubleV(2), IntV(3), IntV(10), IntV(3)>>
    /\ ies.stack = es.stack

---------------------------------------------------------------------------
(* Properties of the local variable table *)

\* the step is a call of the local-variable operation `name`
LvtCalls(name) == lhist' # lhist /\ lhist'[Len(lhist')].op = name
Called == lhist'[Len(lhist')]

OtherSlotsKept(idx) ==
    \A j \in 0 .. LvtSize - 1 : j # idx => lvt'[j] = lvt[j]

\* C7: on a slot holding Int v, iinc(i, n) leaves Int (v + 1), taken in 32
\* bits, for every n, and keeps every other slot; on a slot holding another
\* kind it fails with TypeMismatch.  The code panics on the largest Int
\* when built with overflow checks.
C7_IincAddsOne ==
    [][LvtCalls("iinc") =>
        IF lvt[Called.idx].kind = "Int"
        THEN /\ lstat'.err = NoErr
             /\ lvt'[Called.idx] = IntV(wrapping_add(lvt[Called.idx].i, 1))
             /\ OtherSlotsKept(Called.idx)
        ELSE lstat'.err = TypeMismatch]_vars

\* the last store to slot idx among the operations h, 0 if there is none
LastStore(h, idx) ==
    LET S == {k \in DOMAIN h : h[k].op = "store" /\ h[k].idx = idx}
    IN  IF S = {} THEN 0 ELSE CHOOSE k \in S : \A j \in S : j <= k

\* the number of iinc calls on slot idx after operation k of h
IincsAfter(h, idx, k) ==
    Cardinality({j \in DOMAIN h : j > k /\ h[j].op = "iinc" /\ h[j].idx = idx})

\* what slot idx holds after the operations h, none of which failed: the
\* value last stored, or Int 0, one more for each later iinc
Written(h, idx) ==
    LET k == LastStore(h, idx)
        base == IF k = 0 THEN IntV(0) ELSE h[k].val
        n == IincsAfter(h, idx, k)
    IN  IF n = 0 THEN base ELSE IntV(wrapping_add(base.i, n))

\* C9: load(i) returns the value of the most recent store(i, .), adjusted by
\* the later iinc on i, or Int 0 if slot i was never written, and changes no
\* slot; store(i, v) writes v to slot i whatever it held and leaves the
\* other 255 slots unchanged.
C9_LoadStore ==
    [][/\ LvtCalls("load") =>
            /\ lstat'.err = NoErr
            /\ lstat'.ret = Written(lhist, Called.idx)
            /\ lvt' = lvt
       /\ LvtCalls("store") =>
            /\ lstat'.err = NoErr
            /\ lvt'[Called.idx] = Called.val
            /\ OtherSlotsKept(Called.idx)]_vars

C9_Witness ==
    /\ Len(lhist) = 3
    /\ lhist[1] = LvtOp("store", 5, IntV(42), 0)
    /\ lhist[2].op = "iinc" /\ lhist[2].idx = 5
    /\ lhist[3] = LvtOp("load", 5, NoValue, 0)
    /\ lstat.ret = IntV(43)
    /\ lvt[0] = IntV(0) /\ lvt[LvtSize - 1] = IntV(0)

---------------------------------------------------------------------------
(* Properties of the klass metadata *)

LookedUp == kcall.op = "get_method_by_name_and_desc"

\* the positions, from 1, of the constructor's methods whose name and
\* descriptor join to the key, and of those whose owner, name and
\* descriptor do
WithNameDesc(key) ==
    {i \in DOMAIN kargs : kargs[i].name \o <<":">> \o kargs[i].desc = key}

WithOwnerNameDesc(key) ==
    {i \in DOMAIN kargs :
        kargs[i].klass_name \o <<".">> \o kargs[i].name \o <<":">> \o kargs[i].desc = key}

Last(S) == CHOOSE i \in S : \A j \in S : j <= i

\* C2 as stated: a lookup by the key name:descriptor of a method of the
\* list returns that method, and a lookup by a key that is the
\* name:descriptor of no method of the list fails with MethodNotFound.
C2_LookupByNameDesc ==
    LookedUp =>
        IF WithNameDesc(kcall.key) # {}
        THEN /\ kstat.err = NoErr
             /\ \E i \in WithNameDesc(kcall.key) : kstat.ret = MethodOf(kargs[i])
        ELSE kstat.err = MethodNotFound

\* C2 amended: a lookup by the key owner.name:descriptor of a method of the
\* list returns the last method of the list with that key, and a lookup by
\* a key that is the owner.name:descriptor of no method of the list fails
\* with MethodNotFound.
C2_LookupByOwnerNameDesc ==
    LookedUp =>
        IF WithOwnerNameDesc(kcall.key) # {}
        THEN /\ kstat.err = NoErr
             /\ kstat.ret = MethodOf(kargs[Last(WithOwnerNameDesc(kcall.key))])
        ELSE kstat.err = MethodNotFound

\* a lookup found the second of two different methods with one key
C2_Witness ==
    /\ LookedUp
    /\ Len(kargs) = 2
    /\ WithOwnerNameDesc(kcall.key) = {1, 2}
    /\ kargs[1] # kargs[2]
    /\ kstat.err = NoErr
    /\ kstat.ret = MethodOf(kargs[2])

---------------------------------------------------------------------------
(* Properties of the class repository *)

AddedAs(klass_name) == {i \in DOMAIN adds : get_name(adds[i]) = klass_name}

\* C10: a lookup_klass of a name klasses were added under returns the one
\* added last, whose name is the name looked up and whose method count is
\* that of the klass added; an add_klass under one name leaves what
\* lookup_klass returns for every other name as it was.
C10_LastRegistrationWins ==
    [][/\ (rcall'.op = "lookup_klass" /\ AddedAs(rcall'.name) # {}) =>
            /\ rstat'.err = NoErr
            /\ rstat'.ret = adds[Last(AddedAs(rcall'.name))]
            /\ get_name(rstat'.ret) = rcall'.name
            /\ Len(rstat'.ret.methods) = Len(adds[Last(AddedAs(rcall'.name))].methods)
       /\ (rcall'.op = "add_klass" /\ adds' # adds) =>
            \A n \in RepoNames \ {rcall'.name} :
                lookup_klass(repo', n) = lookup_klass(repo, n)]_vars

\* a lookup returned the second of two klasses added under one name with
\* different method counts, after a klass was added under another name
C10_Witness ==
    /\ rcall.op = "lookup_klass"
    /\ Len(adds) = 3
    /\ AddedAs(rcall.name) = {1, 2}
    /\ Len(adds[1].methods) # Len(adds[2].methods)
    /\ rstat.err = NoErr
    /\ rstat.ret = adds[2]

\* the klass registered under the name: the last one added under it
Registered(klass_name) == adds[Last(AddedAs(klass_name))]

\* C11: lookup_klass fails with ClassNotFound exactly when no klass was
\* added under the name; lookup_method_exact fails with ClassNotFound when
\* no klass is registered under the class name, with MethodNotFound when the
\* registered klass has no method under the key, and otherwise returns the
\* method the registered klass's own lookup returns.
C11_RepoLookupFailures ==
    /\ rcall.op = "lookup_klass" =>
           (rstat.err = ClassNotFound <=> AddedAs(rcall.name) = {})
    /\ rcall.op = "lookup_method_exact" =>
           IF AddedAs(rcall.name) = {} THEN rstat.err = ClassNotFound
           ELSE IF \A i \in DOMAIN Registered(rcall.name).methods :
                       get_fq_name_desc(Registered(rcall.name).methods[i]) # rcall.at
                THEN rstat.err = MethodNotFound
                ELSE /\ rstat.err = NoErr
                     /\ rstat = get_method_by_name_and_desc(Registered(rcall.name), rcall.at)

\* a method was found through the repository in a klass added under a name
\* after another klass without that method
C11_Witness ==
    /\ rcall.op = "lookup_method_exact"
    /\ Len(adds) >= 2
    /\ AddedAs(rcall.name) # {}
    /\ adds[1].methods = <<>>
    /\ get_name(adds[1]) = rcall.name
    /\ rstat.err = NoErr
    /\ get_fq_name_desc(rstat.ret) = rcall.at

RepoLookups == {"lookup_klass", "lookup_method_exact", "lookup_method_virtual", "lookup_field"}

\* C12: every repository lookup called with a class name no klass is
\* registered under fails instead of returning a value.
C12_NoDefaultForMissingKlass ==
    (rcall.op \in RepoLookups /\ AddedAs(rcall.name) = {}) => rstat.err # NoErr

Dummies == {"lookup_method_virtual", "lookup_field"}

\* C17: lookup_method_virtual returns one constant method and lookup_field
\* one constant field, whatever the repository holds and whatever class
\* name and index they are called with, and neither changes the repository.
C17_DummyLookups ==
    [][rcall'.op \in Dummies =>
           /\ rstat'.err = NoErr
           /\ rcall'.op = "lookup_method_virtual" =>
                  /\ rstat'.ret.klass_name = DUMMY_KLASS
                  /\ rstat'.ret.name = DUMMY_METH
                  /\ rstat'.ret.name_desc = DUMMY_METH \o <<":">> \o DUMMY_DESC
                  /\ rstat'.ret = lookup_method_virtual(shared_klass_repo_new, <<>>, 0).ret
           /\ rcall'.op = "lookup_field" =>
                  /\ rstat'.ret.class_name = DUMMY_KLASS
                  /\ rstat'.ret.name = DUMMY_FIELD
                  /\ rstat'.ret = lookup_field(shared_klass_repo_new, <<>>, 0).ret
           /\ repo' = repo]_vars

\* the dummy method was returned for a registered class name and a non-zero
\* index, from a repository that holds two klasses
C17_Witness ==
    /\ rcall.op = "lookup_method_virtual"
    /\ AddedAs(rcall.name) # {}
    /\ rcall.at # 0
    /\ Cardinality(DOMAIN repo.klass_lookup) = 2
    /\ rstat.ret.klass_name = DUMMY_KLASS

---------------------------------------------------------------------------
(* Properties of the constant pool *)

CpCalled == kcall.op = "cp_as_string"

\* the entry cp_as_string was called on, when the index is within the pool
CpInRange == CpCalled /\ kcall.idx < Len(kl.cp_entries)
CpEntry == kl.cp_entries[kcall.idx + 1]

SameOutcome(a, b) == a.err = b.err /\ a.ret = b.ret

\* the outcome is the two strings joined by the separator, when both resolve
JoinOf(l, sep, r) ==
    (l.err = NoErr /\ r.err = NoErr) =>
        kstat.err = NoErr /\ kstat.ret = l.ret \o sep \o r.ret

\* C13: cp_as_string returns a text literal unchanged, resolves a class
\* reference as it resolves the name index, a name-and-type pair to
\* name + ":" + descriptor, and a method reference to class + "." +
\* name-and-type; the method reference of class "Foo" and name-and-type
\* "bar:()V" yields "Foo.bar:()V".
C13_CpAsString ==
    CpInRange =>
        /\ CpEntry.tag = "utf8" => kstat.err = NoErr /\ kstat.ret = CpEntry.val
        /\ CpEntry.tag = "class" => SameOutcome(kstat, cp_as_string(kl, CpEntry.idx))
        /\ CpEntry.tag = "name_and_type" =>
               JoinOf(cp_as_string(kl, CpEntry.name_idx), <<":">>,
                      cp_as_string(kl, CpEntry.type_idx))
        /\ CpEntry.tag = "methodref" =>
               JoinOf(cp_as_string(kl, CpEntry.clz_idx), <<".">>,
                      cp_as_string(kl, CpEntry.nt_idx))
        /\ (CpEntry.tag = "methodref"
              /\ SameOutcome(cp_as_string(kl, CpEntry.clz_idx), Ok(<<"F", "o", "o">>))
              /\ SameOutcome(cp_as_string(kl, CpEntry.nt_idx),
                             Ok(<<"b", "a", "r", ":", "(", ")", "V">>))) =>
               kstat.ret = <<"F", "o", "o", ".", "b", "a", "r", ":", "(", ")", "V">>

\* the method reference of FooPool was resolved to "Foo.bar:()V"
C13_Witness ==
    /\ CpInRange
    /\ kl.cp_entries = FooPool
    /\ CpEntry.tag = "methodref"
    /\ kstat.err = NoErr
    /\ kstat.ret = <<"F", "o", "o", ".", "b", "a", "r", ":", "(", ")", "V">>
    /\ kstat.seen = <<5, 1, 0, 4, 2, 3>>

OtherTags ==
    {"integer", "float", "long", "double", "string", "fieldref", "interface_methodref"}

\* the resolution looked up an entry with another tag
ReachedOtherTag ==
    \E n \in DOMAIN kstat.seen :
        /\ kstat.seen[n] < Len(kl.cp_entries)
        /\ kl.cp_entries[kstat.seen[n] + 1].tag \in OtherTags

\* C14: when the entry cp_as_string is called on, or an entry it looks up
\* while resolving a class reference, method reference or name-and-type
\* pair, has another tag, the call fails with UnsupportedConstantKind and
\* returns no string.
C14_UnsupportedConstantKind ==
    (CpCalled /\ ReachedOtherTag) =>
        kstat.err = UnsupportedConstantKind /\ kstat.ret = NoValue

\* a method reference whose class resolved failed on the entry with another
\* tag that its name-and-type pair led to
C14_Witness ==
    /\ CpInRange
    /\ CpEntry.tag = "methodref"
    /\ Len(kstat.seen) >= 5
    /\ ReachedOtherTag
    /\ kstat.err = UnsupportedConstantKind

---------------------------------------------------------------------------
(* More properties of the operand stack *)

\* the stack without its top two values
Beneath(st) == SubSeq(st, 1, Len(st) - 2)

\* the call replaced the top two values of the stack by v
ReplacesTopTwo(m, n, v) ==
    /\ n.err = NoErr
    /\ Len(m.stack) >= 2
    /\ n.stack = Append(Beneath(m.stack), v)
    /\ Len(n.stack) = Len(m.stack) - 1

\* C15: when a + b (a * b) fits in 32 bits, push(Int a); push(Int b);
\* iadd() (imul()) replaces the top two values by Int (a + b) (Int (a * b)):
\* the depth shrinks by one and the values beneath are unchanged.
C15_IaddImulFit ==
    [][/\ (PushPushThen("iadd")' /\ ~AddOverflows(FirstPushed', SecondPushed')) =>
            /\ ReplacesTopTwo(es, es', IntV(FirstPushed' + SecondPushed'))
            /\ ReplacesTopTwo(ies, ies', IntV(FirstPushed' + SecondPushed'))
       /\ (PushPushThen("imul")' /\ ~MulOverflows(FirstPushed', SecondPushed')) =>
            /\ ReplacesTopTwo(es, es', IntV(FirstPushed' * SecondPushed'))
            /\ ReplacesTopTwo(ies, ies', IntV(FirstPushed' * SecondPushed'))]_vars

\* 10 * 3 left 30 on a value pushed before
C15_Witness ==
    /\ Len(hist) = 4
    /\ PushPushThen("imul")
    /\ FirstPushed = 10 /\ SecondPushed = 3
    /\ es.err = NoErr /\ ies.err = NoErr
    /\ es.stack = <<hist[1].arg, IntV(30)>>
    /\ ies.stack = <<ToIES(hist[1].arg), IntV(30)>>

NoOps == {"iand", "ior", "ixor", "i2d"}

\* the call completed and left the values of the stack as they were
LeavesStack(m, n) == n.err = NoErr /\ n.stack = m.stack /\ Len(n.stack) = Len(m.stack)

\* C16: iand, ior, ixor and i2d complete without failure and leave the
\* contents and the depth of the stack unchanged, on every stack, the empty
\* one and one whose top values are not Ints included.
C16_NoOps ==
    [][(hist' # hist /\ LastOp'.op \in NoOps) =>
           LeavesStack(es, es') /\ LeavesStack(ies, ies')]_vars

\* a no-op completed on a stack with a Double under an object reference
C16_Witness ==
    /\ Len(hist) = 3
    /\ hist[1].op = "dconst"
    /\ hist[2].op = "aconst_null"
    /\ hist[3].op \in NoOps
    /\ es.err = NoErr /\ ies.err = NoErr
    /\ Len(es.stack) = 2 /\ Len(ies.stack) = 2

EquivOps ==
    {"push", "pop", "iconst", "iadd", "isub", "imul", "idiv", "irem", "ineg",
     "dup", "dupX1", "iand", "ior", "ixor", "i2d"}

\* the values of the stack of runtime.rs, as interp_stack.rs holds them
StackToIES(st) == [n \in DOMAIN st |-> ToIES(st[n])]

\* C20: after every sequence of push, pop, iconst, iadd, isub, imul, idiv,
\* irem, ineg, dup, dupX1, iand, ior, ixor and i2d on empty stacks, the two
\* implementations hold the same values, and one has failed exactly when the
\* other has, with the same kind of failure.
C20_StacksEquivalent ==
    (\A n \in DOMAIN hist : hist[n].op \in EquivOps) =>
        /\ ies.stack = StackToIES(es.stack)
        /\ ies.err = es.err
        /\ ies.ret = ToIES(es.ret)

\* both implementations failed at the third step with a type mismatch, and
\* hold the same value
C20_Witness ==
    /\ Len(hist) = 3
    /\ \A n \in DOMAIN hist : hist[n].op \in EquivOps
    /\ hist[3].op = "isub"
    /\ es.err = TypeMismatch /\ ies.err = TypeMismatch
    /\ Len(es.stack) = 1 /\ ies.stack = StackToIES(es.stack)

---------------------------------------------------------------------------
(* Properties of object handles *)

\* C18: is_null answers true exactly for a handle whose mark word and class
\* identifier are both zero; the handle that get_null returns, and the one
\* that allocate_obj returns for any klass, report null; a handle with a
\* non-zero mark or a non-zero class identifier does not.
C18_NullHandle ==
    [][/\ rcall'.op = "is_null" =>
            /\ rstat'.err = NoErr
            /\ rstat'.ret = TRUE <=> (rcall'.obj.mark = 0 /\ rcall'.obj.klassid = 0)
            /\ (rcall'.obj.mark # 0 \/ rcall'.obj.klassid # 0) => rstat'.ret = FALSE
       /\ (rcall'.op = "is_null" /\ rcall'.from \in {"get_null", "allocate_obj"}) =>
            rcall'.obj = rstat.ret /\ rstat'.ret = TRUE
       /\ rcall'.op \in {"get_null", "allocate_obj"} =>
            rstat'.err = NoErr /\ rstat'.ret.mark = 0 /\ rstat'.ret.klassid = 0]_vars

\* a handle with a zero mark and a non-zero class identifier reported that
\* it is not null
C18_Witness ==
    /\ rcall.op = "is_null"
    /\ rcall.obj.mark = 0
    /\ rcall.obj.klassid # 0
    /\ rstat.err = NoErr
    /\ rstat.ret = FALSE

---------------------------------------------------------------------------
(* The lookup index of a klass *)

\* the key of a method: owner.name:descriptor
KeyOf(meth) == meth.klass_name \o <<".">> \o meth.name_desc

\* the positions, from 0, of the methods of k with the key
PositionsOf(k, key) == {i \in 0 .. Len(k.methods) - 1 : KeyOf(k.methods[i + 1]) = key}

IndexAgrees(k) ==
    /\ \A key \in DOMAIN k.name_desc_lookup :
           /\ k.name_desc_lookup[key] \in 0 .. Len(k.methods) - 1
           /\ KeyOf(k.methods[k.name_desc_lookup[key] + 1]) = key
    /\ \A i \in DOMAIN k.methods : KeyOf(k.methods[i]) \in DOMAIN k.name_desc_lookup
    /\ \A key \in DOMAIN k.name_desc_lookup :
           \A i \in PositionsOf(k, key) : i <= k.name_desc_lookup[key]

\* C19: once a klass is constructed, and after any calls on it, every entry
\* of its index maps a key to a position of the method list whose method
\* has that key, every method's key is in the index, and a key that two
\* methods share maps to the later position.
C19_IndexAgrees == kcall.op # "none" => IndexAgrees(kl)

\* after a lookup, the index of a klass of two methods with one key and
\* different flags maps the key to the second
C19_Witness ==
    /\ kcall.op = "get_method_by_name_and_desc"
    /\ Len(kl.methods) = 2
    /\ KeyOf(kl.methods[1]) = KeyOf(kl.methods[2])
    /\ kl.methods[1] # kl.methods[2]
    /\ DOMAIN kl.name_desc_lookup = {KeyOf(kl.methods[2])}
    /\ kl.name_desc_lookup[KeyOf(kl.methods[2])] = 1

---------------------------------------------------------------------------
(* The depth of the operand stack *)

Pushers == {"push", "iconst", "dconst", "aconst_null", "dup", "dupX1"}
BinOps == IntBinOps \cup DoubleBinOps

\* the change of depth of a successful call
Delta(name) ==
    IF name \in Pushers THEN 1
    ELSE IF name \in {"pop"} \cup BinOps THEN 0 - 1
    ELSE 0

RECURSIVE SumOfDeltas(_)
SumOfDeltas(h) ==
    IF h = <<>> THEN 0 ELSE SumOfDeltas(SubSeq(h, 1, Len(h) - 1)) + Delta(h[Len(h)].op)

\* the number of values a call pops
Operands(name) ==
    IF name \in {"pop", "ineg", "dup"} THEN 1
    ELSE IF name \in BinOps \cup {"dupX1"} THEN 2
    ELSE 0

\* the kind of value an instruction takes, "any" when it takes every kind
OperandKind(name) ==
    IF name \in IntBinOps \cup {"ineg"} THEN "Int"
    ELSE IF name \in DoubleBinOps THEN "Double"
    ELSE "any"

\* the values of st that a call would pop are of the kind it takes
WellTyped(name, st) ==
    \A k \in DOMAIN st :
        (k > Len(st) - Operands(name) /\ OperandKind(name) # "any") =>
            st[k].kind = OperandKind(name)

DepthIsSum(m) ==
    m.err = NoErr => Len(m.stack) = SumOfDeltas(hist) /\ Len(m.stack) >= 0

UnderflowsIffShort(m, n) ==
    (hist' # hist /\ WellTyped(LastOp'.op, m.stack)) =>
        (n.err = StackUnderflow <=> Len(m.stack) < Operands(LastOp'.op))

\* C21: after successful operations on an empty stack the depth is the sum
\* of the operations' deltas (+1 for push, iconst, dconst, aconst_null, dup
\* and dupX1; -1 for pop and the binary arithmetic instructions; 0 for ineg
\* and the no-ops) and is not negative; an operation on well-typed operands
\* fails with StackUnderflow exactly when the depth is smaller than the
\* number of values it pops.
C21_DepthDeltas ==
    [][/\ DepthIsSum(es)' /\ DepthIsSum(ies)'
       /\ UnderflowsIffShort(es, es') /\ UnderflowsIffShort(ies, ies')]_vars

\* after a push and a dup, dupX1 completed at depth three
C21_Witness ==
    /\ Len(hist) = 3
    /\ hist[1].op = "push" /\ hist[2].op = "dup" /\ hist[3].op = "dupX1"
    /\ es.err = NoErr /\ ies.err = NoErr
    /\ Len(es.stack) = 3 /\ Len(ies.stack) = 3

\* iadd failed with StackUnderflow on a stack of one Int
C21_WitnessUnderflow ==
    /\ Len(hist) = 2
    /\ hist[1].op = "push" /\ hist[1].arg.kind = "Int" /\ hist[2].op = "iadd"
    /\ es.err = StackUnderflow /\ ies.err = StackUnderflow

\* the top `arity` values of st are Ints
IntsOnTop(st, arity) ==
    Len(st) >= arity /\ \A k \in DOMAIN st : k > Len(st) - arity => st[k].kind = "Int"

\* the call completed and replaced `arity` values by one Int
PushesOneInt(m, n, arity) ==
    /\ n.err = NoErr
    /\ Len(n.stack) = Len(m.stack) - arity + 1
    /\ Top(n.stack).kind = "Int"
    /\ SubSeq(n.stack, 1, Len(n.stack) - 1) = SubSeq(m.stack, 1, Len(m.stack) - arity)

IntArithmeticTotal(m, n) ==
    /\ Calls(IntBinOps \cup {"ineg"}) => n.err \in {NoErr, StackUnderflow, TypeMismatch}
    /\ (Calls(IntBinOps) /\ IntsOnTop(m.stack, 2)) => PushesOneInt(m, n, 2)
    /\ (Calls({"ineg"}) /\ IntsOnTop(m.stack, 1)) => PushesOneInt(m, n, 1)

\* C22: an integer arithmetic instruction fails only with StackUnderflow or
\* TypeMismatch: with Ints as its operands, each of iadd, isub, imul, idiv,
\* irem and ineg completes and pushes one Int, whatever the 32-bit values
\* are, a zero divisor, the minimum integer and a result that does not fit
\* in 32 bits included.  The code panics on each of the three.
C22_IntArithmeticTotal ==
    [][IntArithmeticTotal(es, es') /\ IntArithmeticTotal(ies, ies')]_vars

---------------------------------------------------------------------------
(* Termination of the constant pool resolver *)

\* the indices an entry stores
StoredIndices(e) ==
    IF e.tag \in {"class", "string"} THEN {e.idx}
    ELSE IF e.tag \in {"fieldref", "methodref", "interface_methodref"}
         THEN {e.clz_idx, e.nt_idx}
    ELSE IF e.tag = "name_and_type" THEN {e.name_idx, e.type_idx}
    ELSE {}

\* every index stored in an entry of the pool is an index of the pool
IndicesResolve(pool) ==
    \A p \in DOMAIN pool : \A i \in StoredIndices(pool[p]) : i < Len(pool)

\* C23: on a pool in which every index stored in an entry resolves within
\* the pool, cp_as_string returns a string or fails, whatever index it
\* starts from: its recursion does not go on for ever.  The code recurs
\* without end on a pool whose entries refer to one another in a cycle.
C23_CpAsStringTerminates ==
    (CpCalled /\ IndicesResolve(kl.cp_entries)) => kstat.err # StackExhausted

---------------------------------------------------------------------------
(* Properties of the copies *)

\* what the lookups of the repository would return
RepoAnswers(r) ==
    <<lookup_klass(r, CallerKlassName), lookup_method_exact(r, CallerKlassName, CallerKey)>>

\* the step is a set_code on an object the caller holds, or a change of the
\* caller's klass
CallerChanges ==
    \/ cmeth' # cmeth
    \/ kcall'.op = "set_code" /\ kstat' # kstat
    \/ rcall'.op = "set_code" /\ rstat' # rstat
    \/ kcall'.op = "of" /\ kcall.op # "none" /\ kl' # kl

\* the method of the list with the key
WithKey(meths, key) == {i \in DOMAIN meths : KeyOf(meths[i]) = key}

\* C24: a method that a lookup of the caller's klass returns is the method
\* as it was when passed to the constructor, instruction bytes included, and
\* one that the repository returns is the method of the klass as it was
\* when added; set_code on the caller's method object or on a method a
\* lookup returned, and a change of the caller's klass after add_klass,
\* leave what lookup_klass and lookup_method_exact return as it was, and
\* set_code leaves what the caller's klass returns as it was.
C24_OwnCopies ==
    [][/\ (kcall'.op = "get_method_by_name_and_desc" /\ kstat'.err = NoErr) =>
            /\ WithKey(kargs', kcall'.key) # {}
            /\ kstat'.ret = kargs'[Last(WithKey(kargs', kcall'.key))]
            /\ get_code(kstat'.ret) = get_code(kargs'[Last(WithKey(kargs', kcall'.key))])
       /\ (rcall'.op = "lookup_method_exact" /\ rstat'.err = NoErr) =>
            /\ AddedAs(rcall'.name) # {}
            /\ rstat' = get_method_by_name_and_desc(Registered(rcall'.name), rcall'.at)
       /\ (rcall'.op = "lookup_klass" /\ rstat'.err = NoErr) =>
            rstat'.ret = Registered(rcall'.name)
       /\ CallerChanges => RepoAnswers(repo') = RepoAnswers(repo)
       /\ (CallerChanges /\ kcall'.op # "of" /\ kcall.op # "none") =>
            get_method_by_name_and_desc(kl', CallerKey)
                = get_method_by_name_and_desc(kl, CallerKey)]_vars

\* the repository returned the method with the bytes it had when the klass
\* was constructed, after set_code gave the caller's object and the method
\* an earlier lookup returned other bytes and the caller replaced its klass
C24_Witness ==
    /\ rcall.op = "lookup_method_exact"
    /\ rstat.err = NoErr
    /\ Len(adds) = 1
    /\ get_code(rstat.ret) = <<177>>
    /\ get_code(cmeth[1]) = <<3, 172>>
    /\ kcall.op = "of"
    /\ get_code(kl.methods[1]) = <<3, 172>>
    /\ get_code(adds[1].methods[1]) = <<177>>

=============================================================================
